---- MODULE Spec2Model ----
(***************************************************************************)
(* Model of the requirements-elicitation assistant: the ConversationManager *)
(* session store (src/src/utils/conversation_manager.py), the OllamaClient  *)
(* gateway (src/src/utils/ollama_client.py), the ElicitationEngine           *)
(* (src/src/elicitation/elicitation_engine.py) and the chat handler of       *)
(* src/app.py.                                                               *)
(*                                                                           *)
(* A Python str is a sequence of tokens.  A token is either a run of plain   *)
(* characters (letters, digits, punctuation json leaves alone) or one of the *)
(* characters the JSON encoder or the utf-8 codec treats specially:          *)
(*   QUOTE  the double quote,  BSLASH  the backslash,                        *)
(*   SUR    a lone surrogate code point (U+D800), which json.loads yields    *)
(*          for the escape \ud800 and which utf-8 cannot encode.             *)
(***************************************************************************)
EXTENDS Integers, Sequences, FiniteSets, TLC

\* ------------------------------------------------------------------ bounds
MaxSessions == 2
\* messages and requirements held by the whole store, snapshot files written
MaxMsgs == 2
MaxReqs == 1
MaxFiles == 1
MaxClock == 1
\* chat requests the handler serves
MaxRequests == 2
\* threads calling add_message at once, records load_conversation puts in
\* place of a session's record
MaxThreads == 2
MaxLoads == 1
\* sessions the threads work on
MaxShared == 1

\* ------------------------------------------------------------- characters
QUOTE == "\""
BSLASH == "\\"
SUR == "U+D800"

\* uuid.uuid4() values, in the order the process draws them; "nope" is an
\* identifier a caller may pass that no create_session ever returned.
UuidPool == <<"s1", "s2", "s3", "s4">>
Ids == {UuidPool[i] : i \in 1..MaxSessions}
CallerIds == Ids \cup {"nope"}

Digits == <<"0", "1", "2", "3", "4", "5", "6", "7", "8", "9">>
\* datetime.isoformat(): plain characters only
IsoFormat(t) == <<"T", Digits[t + 1]>>

\* Tagged Python values: a str, None, or an object json cannot serialise
\* (a set, a datetime, ...).
PyNone == [t |-> "none", v |-> <<>>]
PyStr(s) == [t |-> "str", v |-> s]
PyObj == [t |-> "obj", v |-> <<>>]

\* the (role, content) pairs callers pass to add_message
Inputs ==
    {[role |-> <<"user">>, content |-> PyStr(<<"hi", QUOTE, BSLASH>>)],
     [role |-> <<"assistant">>, content |-> PyStr(<<SUR>>)]}
MetaKeys == {"project_name"}
MetaValues == {PyObj}
Requirements == {PyStr(<<"r", QUOTE>>)}

VARIABLES
    sessions,   \* ConversationManager.sessions: session id -> record
    files,      \* artifacts_dir: session id -> <<>> (a broken prefix) or <<doc>>
    issued,     \* number of uuid4() values drawn so far
    clock,      \* the latest reading of the wall clock
    lastOp,     \* the last store operation called, and on which identifier
    ret,        \* what that call returned, or the exception it raised
    returned,   \* the identifiers create_session has returned so far
    rt,         \* progress of a save / new manager / load sequence
    call,       \* the last call made on the gateway or the engine
    pc,         \* chat handler: request -> the line it has reached
    req,        \* chat handler: request -> its local variables
    cookie,     \* the client's Flask session: <<>> or <<session_id>>
    thr,        \* add_message run by a thread: thread -> line reached, locals
    gen         \* session id -> which record object the map holds under it

storeVars == <<sessions, files, issued, clock>>
apiVars == <<lastOp, ret, returned, rt>>
engineVars == <<call, pc, req, cookie>>
threadVars == <<thr, gen>>
vars ==
    <<sessions, files, issued, clock, lastOp, ret, returned, rt,
      call, pc, req, cookie, thr, gen>>

\* datetime.now(): the readings the clock can give next; the model follows a
\* clock that does not step backwards
Now == clock..MaxClock

\* --------------------------------------------------------------- helpers
RECURSIVE Flatten(_)
\* "".join(parts)
Flatten(parts) ==
    IF Len(parts) = 0 THEN <<>> ELSE Head(parts) \o Flatten(Tail(parts))

Last(s) == s[Len(s)]

IsPrefix(s, t) == Len(s) <= Len(t) /\ SubSeq(t, 1, Len(s)) = s

RECURSIVE SumOver(_, _)
SumOver(f, S) ==
    IF S = {} THEN 0
    ELSE LET x == CHOOSE y \in S : TRUE IN f[x] + SumOver(f, S \ {x})

\* ------------------------------------------------------------------- json
\* json.encoder.ESCAPE_DCT with ensure_ascii=False: the quote and the
\* backslash are escaped, every other character is written as it is.
EscapeChar(c) ==
    IF c = QUOTE THEN <<BSLASH, QUOTE>>
    ELSE IF c = BSLASH THEN <<BSLASH, BSLASH>>
    ELSE <<c>>

\* json.encoder.py_encode_basestring: the string literal of s
EncodeString(s) ==
    <<QUOTE>> \o Flatten([i \in 1..Len(s) |-> EscapeChar(s[i])]) \o <<QUOTE>>

RECURSIVE ScanString(_, _)
\* json.decoder.py_scanstring from position i of a literal, after its
\* opening quote: an unescaped quote ends the string, a backslash takes the
\* next character literally.
ScanString(lit, i) ==
    IF i > Len(lit) \/ lit[i] = QUOTE THEN <<>>
    ELSE IF lit[i] = BSLASH /\ i < Len(lit)
         THEN <<lit[i + 1]>> \o ScanString(lit, i + 2)
         ELSE <<lit[i]>> \o ScanString(lit, i + 1)

DecodeString(lit) == ScanString(lit, 2)

\* the codec of open(..., encoding='utf-8') refuses surrogates
Utf8Encodable(text) == \A i \in 1..Len(text) : text[i] # SUR

\* JSONEncoder.default raises TypeError for an object it does not know
Serialisable(v) == v.t # "obj"

\* the JSON text of a value: null for None, a string literal for a str
EncodeValue(v) == IF v.t = "none" THEN <<"null">> ELSE EncodeString(v.v)

DecodeValue(text) ==
    IF text = <<"null">> THEN PyNone ELSE PyStr(DecodeString(text))

EncodeMessage(m) ==
    [role |-> EncodeString(m.role),
     content |-> EncodeValue(m.content),
     timestamp |-> EncodeString(m.timestamp)]

DecodeMessage(d) ==
    [role |-> DecodeString(d.role),
     content |-> DecodeValue(d.content),
     timestamp |-> DecodeString(d.timestamp)]

\* the document json.dump writes for a session record: the tree of the
\* record, every leaf in its JSON text
EncodeRecord(r) ==
    [id |-> EncodeString(r.id),
     created_at |-> EncodeString(r.created_at),
     messages |-> [i \in 1..Len(r.messages) |-> EncodeMessage(r.messages[i])],
     metadata |->
        [project_name |-> EncodeValue(r.metadata.project_name),
         project_description |-> EncodeValue(r.metadata.project_description),
         elicited_requirements |->
            [i \in 1..Len(r.metadata.elicited_requirements) |->
                EncodeValue(r.metadata.elicited_requirements[i])]]]

\* json.load of a complete document
DecodeRecord(d) ==
    [id |-> DecodeString(d.id),
     created_at |-> DecodeString(d.created_at),
     messages |-> [i \in 1..Len(d.messages) |-> DecodeMessage(d.messages[i])],
     metadata |->
        [project_name |-> DecodeValue(d.metadata.project_name),
         project_description |-> DecodeValue(d.metadata.project_description),
         elicited_requirements |->
            [i \in 1..Len(d.metadata.elicited_requirements) |->
                DecodeValue(d.metadata.elicited_requirements[i])]]]

\* every value json.dump has to write for the record, apart from the
\* identifier, the roles and the timestamps
RecordValues(r) ==
    {r.messages[i].content : i \in 1..Len(r.messages)}
    \cup {r.metadata.project_name, r.metadata.project_description}
    \cup {r.metadata.elicited_requirements[i] :
            i \in 1..Len(r.metadata.elicited_requirements)}

\* every string json.dump has to write for the record
RecordStrings(r) ==
    {r.id, r.created_at}
    \cup {r.messages[i].role : i \in 1..Len(r.messages)}
    \cup {r.messages[i].timestamp : i \in 1..Len(r.messages)}
    \cup {v.v : v \in RecordValues(r)}

\* json.dump(record, f) inside "with open(filename, 'w', encoding='utf-8')":
\* open truncates the file, the encoder writes chunk by chunk, and a chunk
\* that raises leaves the chunks before it in the file.
DumpError(r) ==
    IF \E s \in RecordStrings(r) : ~Utf8Encodable(s) THEN "UnicodeEncodeError"
    ELSE IF \E v \in RecordValues(r) : ~Serialisable(v) THEN "TypeError"
    ELSE "none"

\* the file after the with block: <<doc>> complete, <<>> a broken prefix
DumpFile(r) == IF DumpError(r) = "none" THEN <<EncodeRecord(r)>> ELSE <<>>

\* json.load raises JSONDecodeError on a prefix of a document
Parses(file) == Len(file) > 0

\* ------------------------------------------------------ ConversationManager
NoSessions == [s \in {} |-> <<>>]

Known(sid) == sid \in DOMAIN sessions

\* a generator that repeats itself
Uuid4Repeating(n) == UuidPool[1]

\* str(uuid.uuid4()): the n-th value the process draws.  uuid4 is taken at
\* its contract: a value never drawn before.
Uuid4(n) == UuidPool[n + 1]

\* the record create_session stores
NewRecord(sid, t) ==
    [id |-> <<sid>>,
     created_at |-> IsoFormat(t),
     messages |-> <<>>,
     metadata |->
        [project_name |-> PyNone,
         project_description |-> PyNone,
         elicited_requirements |-> <<>>]]

\* self.sessions[sid] = rec, and the same for a file of the directory
Store(map, sid, rec) ==
    [s \in DOMAIN map \cup {sid} |-> IF s = sid THEN rec ELSE map[s]]

\* the message dict add_message builds
NewMessage(role, content, t) ==
    [role |-> role, content |-> content, timestamp |-> IsoFormat(t)]

\* an insertion at the front of the list
ListPrepend(list, x) == <<x>> \o list

\* list.append
ListAppend(list, x) == Append(list, x)

\* the session map after create_session drew sid at clock reading t
CreateSession(map, sid, t) == Store(map, sid, NewRecord(sid, t))

\* an add_message that starts the log again
AddMessageOverwriting(map, sid, role, content, t) ==
    [map EXCEPT ![sid].messages = <<NewMessage(role, content, t)>>]

\* the session map after add_message on a known session
AddMessage(map, sid, role, content, t) ==
    [map EXCEPT ![sid].messages = ListAppend(@, NewMessage(role, content, t))]

\* what get_conversation returns for a known session: the list itself
GetConversation(map, sid) == map[sid].messages

\* get_conversation_text_only: role and content of every message
TextOnly(log) ==
    [i \in 1..Len(log) |-> [role |-> log[i].role, content |-> log[i].content]]

\* the directory after save_conversation on a known session
SaveConversation(fs, map, sid) == Store(fs, sid, DumpFile(map[sid]))

\* whether load_conversation finds a file it can parse
Loadable(fs, sid) == sid \in DOMAIN fs /\ Parses(fs[sid])

\* a load that forgets the session when the file cannot be read
LoadConversationDropping(map, fs, sid) ==
    IF Loadable(fs, sid) THEN Store(map, sid, DecodeRecord(fs[sid][1]))
    ELSE [s \in DOMAIN map \ {sid} |-> map[s]]

\* the session map after load_conversation: the assignment happens only
\* when json.load returned
LoadConversation(map, fs, sid) ==
    IF Loadable(fs, sid) THEN Store(map, sid, DecodeRecord(fs[sid][1])) ELSE map

\* what load_conversation returns
LoadReturn(fs, sid) == IF Loadable(fs, sid) THEN "True" ELSE "False"

\* the model explores stores of at most MaxMsgs messages and MaxReqs
\* requirements in all
StoredMessages ==
    SumOver([s \in DOMAIN sessions |-> Len(sessions[s].messages)], DOMAIN sessions)

StoredRequirements ==
    SumOver([s \in DOMAIN sessions |->
                Len(sessions[s].metadata.elicited_requirements)], DOMAIN sessions)

Call(op, sid) == [op |-> op, sid |-> sid]

NoRoundTrip == [phase |-> 0, sid |-> "nope", log |-> <<>>]

StoreInit ==
    /\ sessions = NoSessions
    /\ files = NoSessions
    /\ issued = 0
    /\ clock = 0
    /\ lastOp = Call("init", "nope")
    /\ ret = "None"
    /\ returned = {}
    /\ rt = NoRoundTrip

\* ConversationManager(artifacts_dir) built again over the same directory:
\* the session map starts empty, the snapshot files stay.
NewManager ==
    /\ sessions # NoSessions
    /\ sessions' = NoSessions
    /\ lastOp' = Call("init", "nope")
    /\ ret' = "None"
    /\ rt' = IF rt.phase = 1 THEN [rt EXCEPT !.phase = 2] ELSE NoRoundTrip
    /\ UNCHANGED <<files, issued, clock, returned>>
    /\ UNCHANGED <<engineVars, threadVars>>

create_session ==
    /\ issued < MaxSessions
    /\ \E t \in Now :
        LET sid == Uuid4(issued) IN
        /\ sessions' = CreateSession(sessions, sid, t)
        /\ clock' = t
        /\ lastOp' = Call("create_session", sid)
        /\ ret' = sid
        /\ returned' = returned \cup {sid}
    /\ issued' = issued + 1
    /\ rt' = NoRoundTrip
    /\ UNCHANGED files
    /\ UNCHANGED <<engineVars, threadVars>>

\* an add_message that opens a session for an identifier it does not know
add_message_setdefault(sid, role, content) ==
    /\ lastOp' = Call("add_message", sid)
    /\ rt' = NoRoundTrip
    /\ StoredMessages < MaxMsgs
    /\ \E t \in Now :
        /\ sessions' =
            AddMessage(IF Known(sid) THEN sessions
                       ELSE CreateSession(sessions, sid, t),
                       sid, role, content, t)
        /\ clock' = t
    /\ ret' = "None"
    /\ UNCHANGED <<files, issued, returned>>
    /\ UNCHANGED <<engineVars, threadVars>>

add_message(sid, role, content) ==
    /\ lastOp' = Call("add_message", sid)
    /\ rt' = NoRoundTrip
    /\ IF ~Known(sid)
       THEN /\ ret' = "ValueError"
            /\ UNCHANGED <<sessions, clock>>
       ELSE /\ StoredMessages < MaxMsgs
            /\ \E t \in Now :
                /\ sessions' = AddMessage(sessions, sid, role, content, t)
                /\ clock' = t
            /\ ret' = "None"
    /\ UNCHANGED <<files, issued, returned>>
    /\ UNCHANGED <<engineVars, threadVars>>

get_conversation(sid) ==
    /\ lastOp' = Call("get_conversation", sid)
    /\ rt' = NoRoundTrip
    /\ ret' = IF Known(sid) THEN "messages" ELSE "ValueError"
    /\ UNCHANGED <<sessions, files, issued, clock, returned>>
    /\ UNCHANGED <<engineVars, threadVars>>

update_metadata(sid, key, value) ==
    /\ lastOp' = Call("update_metadata", sid)
    /\ rt' = NoRoundTrip
    /\ IF ~Known(sid)
       THEN /\ ret' = "ValueError"
            /\ UNCHANGED sessions
       ELSE /\ sessions' = [sessions EXCEPT ![sid].metadata[key] = value]
            /\ ret' = "None"
    /\ UNCHANGED <<files, issued, clock, returned>>
    /\ UNCHANGED <<engineVars, threadVars>>

add_requirement(sid, requirement) ==
    /\ lastOp' = Call("add_requirement", sid)
    /\ rt' = NoRoundTrip
    /\ IF ~Known(sid)
       THEN /\ ret' = "ValueError"
            /\ UNCHANGED sessions
       ELSE /\ StoredRequirements < MaxReqs
            /\ sessions' =
                [sessions EXCEPT ![sid].metadata.elicited_requirements =
                    ListAppend(@, requirement)]
            /\ ret' = "None"
    /\ UNCHANGED <<files, issued, clock, returned>>
    /\ UNCHANGED <<engineVars, threadVars>>

save_conversation(sid) ==
    /\ lastOp' = Call("save_conversation", sid)
    /\ IF ~Known(sid)
       THEN /\ ret' = "ValueError"
            /\ rt' = NoRoundTrip
            /\ UNCHANGED files
       ELSE /\ sid \in DOMAIN files \/ Cardinality(DOMAIN files) < MaxFiles
            /\ files' = SaveConversation(files, sessions, sid)
            /\ ret' = IF DumpError(sessions[sid]) = "none"
                      THEN "filename" ELSE DumpError(sessions[sid])
            /\ rt' = [phase |-> 1, sid |-> sid, log |-> sessions[sid].messages]
    /\ UNCHANGED <<sessions, issued, clock, returned>>
    /\ UNCHANGED <<engineVars, threadVars>>

load_conversation(sid) ==
    /\ lastOp' = Call("load_conversation", sid)
    /\ sessions' = LoadConversation(sessions, files, sid)
    /\ ret' = LoadReturn(files, sid)
    /\ rt' = IF rt.phase = 2 /\ rt.sid = sid
             THEN [rt EXCEPT !.phase = 3] ELSE NoRoundTrip
    /\ UNCHANGED <<files, issued, clock, returned>>
    /\ UNCHANGED <<engineVars, threadVars>>

\* ------------------------------- add_message run by threads at the same time
\* One thread runs one add_message call.  Line 64 is two steps of the
\* interpreter: self.sessions[session_id]['messages'] yields the list object
\* the record holds at that moment, then append is called on that object.
Threads == 1..MaxThreads

NoLocals ==
    [pc |-> "idle", sid |-> "nope", message |-> <<>>, before |-> <<>>,
     gen0 |-> 0, ref |-> 0, seen |-> <<>>]

ThreadInit ==
    /\ thr = [t \in Threads |-> NoLocals]
    /\ gen = [s \in CallerIds |-> 0]

ThreadsIdle == \A t \in Threads : thr[t].pc = "idle"

\* an append that writes back the list as the thread read it
AppendToCopy(map, sid, seen, message) ==
    [map EXCEPT ![sid].messages = ListAppend(seen, message)]

\* list.append on the list object the map still holds: one step under the
\* interpreter lock, on the list as it is now
AppendInPlace(map, sid, seen, message) ==
    [map EXCEPT ![sid].messages = ListAppend(@, message)]

\* line 55: the membership test; a thread that passes it goes on
thread_call(t, sid, role, content) ==
    /\ thr[t].pc = "idle"
    /\ thr' = [thr EXCEPT ![t] =
                IF ~Known(sid)
                THEN [NoLocals EXCEPT !.pc = "raised", !.sid = sid]
                ELSE [NoLocals EXCEPT !.pc = "lookup", !.sid = sid,
                        !.message = <<[role |-> role, content |-> content]>>,
                        !.before = sessions[sid].messages,
                        !.gen0 = gen[sid]]]
    /\ UNCHANGED <<storeVars, apiVars, engineVars, gen>>

\* lines 58-64, first half: the message dict is built, then the list of the
\* session's record is looked up
thread_lookup(t) ==
    /\ thr[t].pc = "lookup"
    /\ \E now \in Now :
        /\ thr' = [thr EXCEPT ![t].pc = "append",
                     ![t].message =
                        <<NewMessage(thr[t].message[1].role,
                                     thr[t].message[1].content, now)>>,
                     ![t].ref = gen[thr[t].sid],
                     ![t].seen = sessions[thr[t].sid].messages]
        /\ clock' = now
    /\ UNCHANGED <<sessions, files, issued, apiVars, engineVars, gen>>

\* line 64, second half: append on the list object looked up.  When
\* load_conversation has put another record under the identifier since,
\* that object is no more part of the session map.
thread_append(t) ==
    /\ thr[t].pc = "append"
    /\ sessions' = IF thr[t].ref = gen[thr[t].sid]
                   THEN AppendInPlace(sessions, thr[t].sid, thr[t].seen,
                                      thr[t].message[1])
                   ELSE sessions
    /\ thr' = [thr EXCEPT ![t].pc = "done"]
    /\ UNCHANGED <<files, issued, clock, apiVars, engineVars, gen>>

\* load_conversation run beside the threads: line 158 binds the identifier
\* to the record json.load built, a new object
load_conversation_beside(sid) ==
    /\ gen[sid] < MaxLoads
    /\ lastOp' = Call("load_conversation", sid)
    /\ sessions' = LoadConversation(sessions, files, sid)
    /\ ret' = LoadReturn(files, sid)
    /\ rt' = NoRoundTrip
    /\ gen' = IF Loadable(files, sid) THEN [gen EXCEPT ![sid] = @ + 1] ELSE gen
    /\ UNCHANGED <<files, issued, clock, returned, engineVars, thr>>

\* ------------------------------------------------------------ OllamaClient
\* the two strings chat returns from its except clauses
FallbackConnect ==
    <<"I apologize, but I'm having trouble connecting to the language model. Please ensure Ollama is running.">>
FallbackUnexpected == <<"An unexpected error occurred. Please try again.">>

\* JSON values of a response body: objects and arrays beside str and None
PyDict(f) == [t |-> "dict", v |-> f]
PyList == [t |-> "list", v |-> <<>>]
NoKeys == [k \in {} |-> PyNone]

\* the literal header of the document template, a token of its own
HDR == "FUNCTIONAL REQUIREMENTS"

\* texts the model may generate
ModelTexts ==
    {<<>>,
     <<"Who will use the system?">>,
     <<"# SOFTWARE REQUIREMENTS SPECIFICATION ... ## 3. ", HDR, " FR-1: ...">>}

\* bodies of a response with a success status that parse as JSON
Bodies ==
    {PyList,
     PyDict(NoKeys),
     PyDict("message" :> PyNone),
     PyDict("message" :> PyStr(<<"text">>)),
     PyDict("message" :> PyDict(NoKeys)),
     PyDict("message" :> PyDict("content" :> PyNone))}
    \cup {PyDict("message" :> PyDict("content" :> PyStr(x))) : x \in ModelTexts}

\* what the remote request can come to: requests.post raises, the status
\* is no success, the body is no JSON, or a body arrives
Outcome(kind, body) == [kind |-> kind, body |-> body]
Failures == {"ConnectionError", "Timeout", "HTTPError", "InvalidJSON"}
Outcomes ==
    {Outcome(k, PyNone) : k \in Failures} \cup {Outcome("ok", b) : b \in Bodies}

Try(exc, val) == [exc |-> exc, val |-> val]

\* dict.get(key, default); a value that is no dict has no get
DictGet(d, key, default) ==
    IF d.t # "dict" THEN Try("AttributeError", PyNone)
    ELSE IF key \in DOMAIN d.v THEN Try("none", d.v[key])
    ELSE Try("none", default)

\* result.get('message', {}).get('content', '')
ExtractContent(result) ==
    LET message == DictGet(result, "message", PyDict(NoKeys)) IN
    IF message.exc # "none" THEN message
    ELSE DictGet(message.val, "content", PyStr(<<>>))

\* the exception response.json() raises on a body that is no JSON: a
\* RequestException from requests 2.27 on, a plain ValueError before
JsonError(newRequests) ==
    IF newRequests THEN "requests.JSONDecodeError" ELSE "json.JSONDecodeError"

\* the body of the try block of chat; what the service answers is its own
\* choice, whatever the messages
ChatAttempt(messages, outcome, newRequests) ==
    IF outcome.kind \in {"ConnectionError", "Timeout"}
    THEN Try(outcome.kind, PyNone)
    ELSE IF outcome.kind = "HTTPError" THEN Try("HTTPError", PyNone)
    ELSE IF outcome.kind = "InvalidJSON" THEN Try(JsonError(newRequests), PyNone)
    ELSE ExtractContent(outcome.body)

\* except requests.exceptions.RequestException
IsRequestException(exc) ==
    exc \in {"ConnectionError", "Timeout", "HTTPError", "requests.JSONDecodeError"}

\* a handler that lets everything else through
IsNoException(exc) == FALSE

\* except Exception
IsException(exc) == TRUE

\* OllamaClient.chat: what the call returns, or the exception that leaves it
OllamaChat(messages, outcome, newRequests) ==
    LET a == ChatAttempt(messages, outcome, newRequests) IN
    IF a.exc = "none" THEN [raised |-> "none", val |-> a.val]
    ELSE IF IsRequestException(a.exc)
    THEN [raised |-> "none", val |-> PyStr(FallbackConnect)]
    ELSE IF IsException(a.exc)
    THEN [raised |-> "none", val |-> PyStr(FallbackUnexpected)]
    ELSE [raised |-> a.exc, val |-> PyNone]

ChatMessage(role, content) == [role |-> role, content |-> content]

\* a chat_with_system_prompt that leaves the history out
MessagesWithoutHistory(system_prompt, user_message, conversation_history) ==
    <<ChatMessage(<<"system">>, PyStr(system_prompt)),
      ChatMessage(<<"user">>, PyStr(user_message))>>

\* the messages chat_with_system_prompt passes to chat
SystemPromptMessages(system_prompt, user_message, conversation_history) ==
    LET messages == <<ChatMessage(<<"system">>, PyStr(system_prompt))>>
        extended == IF Len(conversation_history) > 0
                    THEN messages \o conversation_history
                    ELSE messages
    IN ListAppend(extended, ChatMessage(<<"user">>, PyStr(user_message)))

\* -------------------------------------------------------- ElicitationEngine
SYSTEM_PROMPT ==
    <<"You are an expert Requirements Engineering Assistant ... step by step.">>

\* a template whose section headers were reworded
TemplateWithoutHeader ==
    <<"Based on the conversation history provided, generate an SRS.">>

SPECIFICATION_GENERATION_PROMPT ==
    <<"Based on the conversation history provided, generate ... ## 3. ", HDR,
      " [List all functional requirements ...] ## 4. NON-", HDR,
      " ... Be precise and avoid ambiguity.">>

TECHNICAL_WRITER ==
    <<"You are a technical writer specializing in software requirements specifications.">>

\* a slice that keeps the last element
WholeList(list) == list

\* list[:-1]
ButLast(list) == IF Len(list) = 0 THEN <<>> ELSE SubSeq(list, 1, Len(list) - 1)

\* the messages process_message sends for a history
ProcessMessageSends(user_message, conversation_history) ==
    SystemPromptMessages(SYSTEM_PROMPT, user_message,
                         TextOnly(ButLast(conversation_history)))

\* str.upper on the role names
Upper(s) ==
    [i \in 1..Len(s) |->
        CASE s[i] = "user" -> "USER"
          [] s[i] = "assistant" -> "ASSISTANT"
          [] s[i] = "system" -> "SYSTEM"
          [] OTHER -> s[i]]

\* the text an f-string puts in for a value
Format(v) == IF v.t = "none" THEN <<"None">> ELSE v.v

RECURSIVE Join(_, _)
\* sep.join(parts)
Join(sep, parts) ==
    IF Len(parts) = 0 THEN <<>>
    ELSE IF Len(parts) = 1 THEN parts[1]
    ELSE parts[1] \o sep \o Join(sep, Tail(parts))

\* _format_conversation_for_spec
FormatConversationForSpec(conversation_history) ==
    Join(<<"\n\n">>,
         [i \in 1..Len(conversation_history) |->
            Upper(conversation_history[i].role) \o <<": ">>
                \o Format(conversation_history[i].content)])

\* spec_prompt of generate_specification
SpecPrompt(conversation_history) ==
    SPECIFICATION_GENERATION_PROMPT
        \o <<"\n\n## CONVERSATION HISTORY:\n\n">>
        \o FormatConversationForSpec(conversation_history)
        \o <<"\n\nNow generate the complete SRS document:">>

\* the messages generate_specification sends for a history
GenerateSpecificationSends(conversation_history) ==
    SystemPromptMessages(TECHNICAL_WRITER, SpecPrompt(conversation_history), <<>>)

\* substring test, on the tokens of a text
Contains(text, token) == \E i \in 1..Len(text) : text[i] = token

\* ---------------------------------------------------- calls on the engine
\* message logs passed as conversation_history
Msg(role, text, t) == NewMessage(role, PyStr(text), t)
Histories ==
    {<<>>,
     <<Msg(<<"user">>, <<"hi">>, 0)>>,
     <<Msg(<<"user">>, <<"hi">>, 0), Msg(<<"assistant">>, <<"Who?">>, 0)>>,
     <<Msg(<<"user">>, <<"hi">>, 0), Msg(<<"assistant">>, <<"Who?">>, 0),
       Msg(<<"user">>, <<"me">>, 1)>>,
     <<Msg(<<"assistant">>, <<HDR>>, 0), Msg(<<"user">>, <<"me">>, 1)>>}
UserTexts == {<<"me">>, <<"hi", QUOTE>>}

NoCall ==
    [op |-> "none", user_text |-> <<>>, history |-> <<>>,
     outcome |-> Outcome("ok", PyList), sent |-> <<>>,
     out |-> [raised |-> "none", val |-> PyNone]]

EngineInit ==
    /\ call = NoCall
    /\ pc = [r \in 1..MaxRequests |-> "idle"]
    /\ req = [r \in 1..MaxRequests |->
                [message |-> <<>>, session_id |-> "nope", response |-> PyNone,
                 sent |-> <<>>, status |-> 0]]
    /\ cookie = <<>>

\* the handler has served no request yet
HandlerUntouched == \A r \in 1..MaxRequests : pc[r] = "idle"

\* OllamaClient.chat called with messages, the request ending in outcome
chat_call(messages, outcome, newRequests) ==
    /\ HandlerUntouched
    /\ call' = [op |-> "chat", user_text |-> <<>>, history |-> <<>>,
                outcome |-> outcome, sent |-> messages,
                out |-> OllamaChat(messages, outcome, newRequests)]
    /\ UNCHANGED <<storeVars, apiVars, threadVars, pc, req, cookie>>

\* ElicitationEngine.process_message called on a history
process_message_call(user_text, history, outcome, newRequests) ==
    /\ HandlerUntouched
    /\ LET messages == ProcessMessageSends(user_text, history) IN
        call' = [op |-> "process_message", user_text |-> user_text,
                 history |-> history, outcome |-> outcome, sent |-> messages,
                 out |-> OllamaChat(messages, outcome, newRequests)]
    /\ UNCHANGED <<storeVars, apiVars, threadVars, pc, req, cookie>>

\* ElicitationEngine.generate_specification called on a history
generate_specification_call(history, outcome, newRequests) ==
    /\ HandlerUntouched
    /\ LET messages == GenerateSpecificationSends(history) IN
        call' = [op |-> "generate_specification", user_text |-> <<>>,
                 history |-> history, outcome |-> outcome, sent |-> messages,
                 out |-> OllamaChat(messages, outcome, newRequests)]
    /\ UNCHANGED <<storeVars, apiVars, threadVars, pc, req, cookie>>

\* ------------------------------------------------------- app.py: chat()
WS == " "

RECURSIVE LStrip(_)
LStrip(s) == IF Len(s) > 0 /\ s[1] = WS THEN LStrip(Tail(s)) ELSE s

RECURSIVE RStrip(_)
RStrip(s) ==
    IF Len(s) > 0 /\ s[Len(s)] = WS THEN RStrip(SubSeq(s, 1, Len(s) - 1)) ELSE s

\* str.strip
Strip(s) == RStrip(LStrip(s))

\* what data.get('message', '') can hold: null, blanks, a text, a text with
\* a lone surrogate
RawMessages ==
    {PyNone, PyStr(<<WS>>), PyStr(<<WS, "I need a login page", WS>>),
     PyStr(<<SUR>>)}

\* no other request is between its first and its last line
Serial(r) == \A q \in 1..MaxRequests \ {r} : pc[q] \in {"idle", "done"}

\* the response leaves: the status is set, and the Flask session the
\* request wrote goes back to the client
Respond(r, status) ==
    /\ pc' = [pc EXCEPT ![r] = "done"]
    /\ req' = [req EXCEPT ![r].status = status]
    /\ cookie' = IF req[r].session_id # "nope"
                 THEN <<req[r].session_id>> ELSE cookie

\* lines 42-55: the message is read and stripped, the session identifier
\* is taken from the Flask session or a session is created
chat_receive(r, raw) ==
    /\ pc[r] = "idle"
    /\ call = NoCall
    /\ IF raw.t # "str"
       THEN /\ Respond(r, 500)
            /\ UNCHANGED storeVars
       ELSE IF Strip(raw.v) = <<>>
       THEN /\ Respond(r, 400)
            /\ UNCHANGED storeVars
       ELSE IF cookie # <<>>
       THEN /\ req' = [req EXCEPT ![r].message = Strip(raw.v),
                                  ![r].session_id = cookie[1]]
            /\ pc' = [pc EXCEPT ![r] = "append_user"]
            /\ UNCHANGED <<storeVars, cookie>>
       ELSE /\ issued < MaxSessions
            /\ \E t \in Now :
                /\ sessions' = CreateSession(sessions, Uuid4(issued), t)
                /\ clock' = t
            /\ issued' = issued + 1
            /\ req' = [req EXCEPT ![r].message = Strip(raw.v),
                                  ![r].session_id = Uuid4(issued)]
            /\ pc' = [pc EXCEPT ![r] = "append_user"]
            /\ UNCHANGED <<files, cookie>>
    /\ UNCHANGED <<apiVars, threadVars, call>>

\* line 58: conversation_manager.add_message(session_id, 'user', user_message)
chat_append_user(r) ==
    /\ pc[r] = "append_user"
    /\ IF ~Known(req[r].session_id)
       THEN /\ Respond(r, 500)
            /\ UNCHANGED storeVars
       ELSE /\ \E t \in Now :
                /\ sessions' = AddMessage(sessions, req[r].session_id,
                                          <<"user">>, PyStr(req[r].message), t)
                /\ clock' = t
            /\ pc' = [pc EXCEPT ![r] = "get_history"]
            /\ UNCHANGED <<files, issued, req, cookie>>
    /\ UNCHANGED <<apiVars, threadVars, call>>

\* line 61: conversation_history is the list the store holds
chat_get_history(r) ==
    /\ pc[r] = "get_history"
    /\ IF ~Known(req[r].session_id)
       THEN Respond(r, 500)
       ELSE /\ pc' = [pc EXCEPT ![r] = "send"]
            /\ UNCHANGED <<req, cookie>>
    /\ UNCHANGED <<storeVars, apiVars, threadVars, call>>

\* lines 64-67 up to requests.post: process_message reads the list and the
\* messages go out
chat_send(r) ==
    /\ pc[r] = "send"
    /\ req' = [req EXCEPT ![r].sent =
                ProcessMessageSends(req[r].message,
                                    GetConversation(sessions, req[r].session_id))]
    /\ pc' = [pc EXCEPT ![r] = "await"]
    /\ UNCHANGED <<storeVars, apiVars, threadVars, call, cookie>>

\* lines 64-67 from requests.post on: the gateway returns
chat_reply(r, outcome, newRequests) ==
    /\ pc[r] = "await"
    /\ LET out == OllamaChat(req[r].sent, outcome, newRequests) IN
        IF out.raised # "none"
        THEN Respond(r, 500)
        ELSE /\ req' = [req EXCEPT ![r].response = out.val]
             /\ pc' = [pc EXCEPT ![r] = "append_assistant"]
             /\ UNCHANGED cookie
    /\ UNCHANGED <<storeVars, apiVars, threadVars, call>>

\* line 70: add_message(session_id, 'assistant', assistant_response)
chat_append_assistant(r) ==
    /\ pc[r] = "append_assistant"
    /\ IF ~Known(req[r].session_id)
       THEN /\ Respond(r, 500)
            /\ UNCHANGED storeVars
       ELSE /\ \E t \in Now :
                /\ sessions' = AddMessage(sessions, req[r].session_id,
                                          <<"assistant">>, req[r].response, t)
                /\ clock' = t
            /\ pc' = [pc EXCEPT ![r] = "save"]
            /\ UNCHANGED <<files, issued, req, cookie>>
    /\ UNCHANGED <<apiVars, threadVars, call>>

\* lines 73-78: save_conversation, then the response
chat_save(r) ==
    /\ pc[r] = "save"
    /\ IF ~Known(req[r].session_id)
       THEN /\ Respond(r, 500)
            /\ UNCHANGED storeVars
       ELSE /\ files' = SaveConversation(files, sessions, req[r].session_id)
            /\ Respond(r, IF DumpError(sessions[req[r].session_id]) = "none"
                          THEN 200 ELSE 500)
            /\ UNCHANGED <<sessions, issued, clock>>
    /\ UNCHANGED <<apiVars, threadVars, call>>

\* app.py: new_session(): the Flask session is cleared, a session is created
\* and its identifier goes back to the client
new_session ==
    /\ issued < MaxSessions
    /\ \E t \in Now :
        /\ sessions' = CreateSession(sessions, Uuid4(issued), t)
        /\ clock' = t
    /\ issued' = issued + 1
    /\ cookie' = <<Uuid4(issued)>>
    /\ UNCHANGED <<files, apiVars, threadVars, call, pc, req>>

\* -------------------------------------------------------- specifications
Init == StoreInit /\ EngineInit /\ ThreadInit

Next ==
    \/ NewManager
    \/ create_session
    \/ \E sid \in CallerIds, in \in Inputs :
        add_message(sid, in.role, in.content)
    \/ \E sid \in CallerIds : get_conversation(sid)
    \/ \E sid \in CallerIds, key \in MetaKeys, value \in MetaValues :
        update_metadata(sid, key, value)
    \/ \E sid \in CallerIds, requirement \in Requirements :
        add_requirement(sid, requirement)
    \/ \E sid \in CallerIds : save_conversation(sid)
    \/ \E sid \in CallerIds : load_conversation(sid)

Spec == Init /\ [][Next]_vars

\* messages passed to OllamaClient.chat directly
ChatInputs ==
    {ProcessMessageSends(<<"me">>, <<>>),
     ProcessMessageSends(<<"me">>, <<Msg(<<"user">>, <<"hi">>, 0),
                                       Msg(<<"assistant">>, <<"Who?">>, 0),
                                       Msg(<<"user">>, <<"me">>, 1)>>)}

\* the gateway and the engine called directly, and the chat handler serving
\* one request at a time
NextEngine ==
    \/ \E messages \in ChatInputs, outcome \in Outcomes, newRequests \in BOOLEAN :
        chat_call(messages, outcome, newRequests)
    \/ \E user_text \in UserTexts, history \in Histories,
          outcome \in Outcomes, newRequests \in BOOLEAN :
        process_message_call(user_text, history, outcome, newRequests)
    \/ \E history \in Histories, outcome \in Outcomes, newRequests \in BOOLEAN :
        generate_specification_call(history, outcome, newRequests)
    \/ \E r \in 1..MaxRequests, raw \in RawMessages :
        Serial(r) /\ chat_receive(r, raw)
    \/ \E r \in 1..MaxRequests : Serial(r) /\ chat_append_user(r)
    \/ \E r \in 1..MaxRequests : Serial(r) /\ chat_get_history(r)
    \/ \E r \in 1..MaxRequests : Serial(r) /\ chat_send(r)
    \/ \E r \in 1..MaxRequests, outcome \in Outcomes, newRequests \in BOOLEAN :
        Serial(r) /\ chat_reply(r, outcome, newRequests)
    \/ \E r \in 1..MaxRequests : Serial(r) /\ chat_append_assistant(r)
    \/ \E r \in 1..MaxRequests : Serial(r) /\ chat_save(r)

SpecEngine == Init /\ [][NextEngine]_vars

\* the chat handler run by a threaded server: the requests of a client take
\* their steps in any order
NextConcurrent ==
    \/ new_session
    \/ \E r \in 1..MaxRequests, raw \in RawMessages : chat_receive(r, raw)
    \/ \E r \in 1..MaxRequests : chat_append_user(r)
    \/ \E r \in 1..MaxRequests : chat_get_history(r)
    \/ \E r \in 1..MaxRequests : chat_send(r)
    \/ \E r \in 1..MaxRequests, outcome \in Outcomes, newRequests \in BOOLEAN :
        chat_reply(r, outcome, newRequests)
    \/ \E r \in 1..MaxRequests : chat_append_assistant(r)
    \/ \E r \in 1..MaxRequests : chat_save(r)

SpecConcurrent == Init /\ [][NextConcurrent]_vars

\* the store called by threads: add_message in its steps, the other
\* operations beside it, and add_message alone before any thread starts
NextThreads ==
    \/ issued < MaxShared /\ create_session
    \/ \E sid \in Ids, in \in Inputs :
        ThreadsIdle /\ add_message(sid, in.role, in.content)
    \/ \E sid \in Ids : get_conversation(sid)
    \/ \E sid \in Ids : save_conversation(sid)
    \/ \E sid \in Ids : load_conversation_beside(sid)
    \/ \E t \in Threads, sid \in CallerIds, in \in Inputs :
        thread_call(t, sid, in.role, in.content)
    \/ \E t \in Threads : thread_lookup(t)
    \/ \E t \in Threads : thread_append(t)

SpecThreads == Init /\ [][NextThreads]_vars

\* ------------------------------------------------------------------ claims
\* C1: add_message on an identifier that is not a key of the session map
\* raises ValueError and leaves the store as it was: no session appears for
\* the identifier and no log grows.
C1_UnknownSessionRejected ==
    [][\A sid \in CallerIds :
        (lastOp'.op = "add_message" /\ lastOp'.sid = sid /\ ~Known(sid))
        => /\ ret' = "ValueError"
           /\ sessions' = sessions
           /\ files' = files]_vars

\* C1 witness: add_message has just been refused for an unknown identifier
\* while the store holds a session with a message.
C1_Witness ==
    /\ lastOp.op = "add_message"
    /\ ~Known(lastOp.sid)
    /\ ret = "ValueError"
    /\ StoredMessages > 0

\* C2: add_message on a known session, then get_conversation: the log is one
\* longer, ends with a message of exactly that role and content, and starts
\* with the previous log in its order.
C2_AppendThenGet ==
    [][\A sid \in CallerIds, in \in Inputs :
        (Known(sid) /\ add_message(sid, in.role, in.content))
        => LET before == GetConversation(sessions, sid)
               after == GetConversation(sessions', sid)
           IN /\ Len(after) = Len(before) + 1
              /\ Last(after).role = in.role
              /\ Last(after).content = in.content
              /\ SubSeq(after, 1, Len(before)) = before]_vars

\* C2 witness: add_message has just returned on a session whose log already
\* held a message.
C2_Witness ==
    /\ lastOp.op = "add_message"
    /\ ret = "None"
    /\ Known(lastOp.sid)
    /\ Len(GetConversation(sessions, lastOp.sid)) >= 2

\* C3: save_conversation on a known session, then an empty session map, then
\* load_conversation: the load returns True and the session's log is the
\* saved one, message for message.
C3_SaveClearLoad ==
    rt.phase = 3
    => /\ ret = "True"
       /\ Known(rt.sid)
       /\ GetConversation(sessions, rt.sid) = rt.log

\* The same round trip for the snapshots save_conversation wrote in full.
SaveClearLoadOfWrittenSnapshot ==
    (rt.phase = 3 /\ Loadable(files, rt.sid))
    => /\ ret = "True"
       /\ Known(rt.sid)
       /\ GetConversation(sessions, rt.sid) = rt.log

\* C4: the identifier create_session returns was never returned before and
\* is no key of the session map, every record already there stays as it was,
\* and the new record has no message and no elicited requirement.
C4_CreateIsFresh ==
    [][lastOp'.op = "create_session"
        => /\ ret' \notin returned
           /\ ret' \notin DOMAIN sessions
           /\ ret' \in DOMAIN sessions'
           /\ \A s \in DOMAIN sessions :
                s \in DOMAIN sessions' /\ sessions'[s] = sessions[s]
           /\ sessions'[ret'].messages = <<>>
           /\ sessions'[ret'].metadata.elicited_requirements = <<>>]_vars

\* C4 witness: create_session has just returned its second identifier while
\* the first session holds a message.
C4_Witness ==
    /\ lastOp.op = "create_session"
    /\ Cardinality(returned) = 2
    /\ Cardinality(DOMAIN sessions) = 2
    /\ StoredMessages > 0

\* C8: load_conversation returns True or False and never raises; with no
\* snapshot file, or with one json.load rejects, it returns False and the
\* session map is what it was.
C8_FailedLoadKeepsMap ==
    [][\A sid \in CallerIds :
        (lastOp'.op = "load_conversation" /\ lastOp'.sid = sid)
        => /\ ret' \in {"True", "False"}
           /\ (sid \notin DOMAIN files \/ ~Parses(files[sid]))
                => (ret' = "False" /\ sessions' = sessions)]_vars

\* C8 witness: load_conversation has just returned False on a broken snapshot
\* of a session that is in memory with a message.
C8_Witness ==
    /\ lastOp.op = "load_conversation"
    /\ ret = "False"
    /\ lastOp.sid \in DOMAIN files
    /\ ~Parses(files[lastOp.sid])
    /\ Known(lastOp.sid)
    /\ Len(GetConversation(sessions, lastOp.sid)) > 0

\* C10 as claimed: over every store operation, the log of a session is a
\* prefix of its log after the operation.
C10_AppendOnly ==
    [][\A s \in DOMAIN sessions \cap DOMAIN sessions' :
        IsPrefix(sessions[s].messages, sessions'[s].messages)]_vars

\* C10 amended: every store operation but load_conversation keeps each log
\* as a prefix of the log after it; load_conversation keeps the logs of the
\* other sessions, and puts the snapshot's log in place of the one it loads.
C10_AppendOnlyButLoad ==
    [][/\ lastOp'.op # "load_conversation"
            => \A s \in DOMAIN sessions \cap DOMAIN sessions' :
                IsPrefix(sessions[s].messages, sessions'[s].messages)
       /\ lastOp'.op = "load_conversation"
            => \A s \in DOMAIN sessions \ {lastOp'.sid} :
                s \in DOMAIN sessions' /\ sessions'[s] = sessions[s]]_vars

\* C10 witness: add_message has just grown a log that a snapshot file holds
\* in its earlier, shorter state.
C10_Witness ==
    /\ lastOp.op = "add_message"
    /\ ret = "None"
    /\ Loadable(files, lastOp.sid)
    /\ Len(files[lastOp.sid][1].messages) < Len(sessions[lastOp.sid].messages)

\* the outcomes chat cannot take a text from: no connection, a timeout, a
\* status that is no success, a body that is no JSON, or a JSON body that is
\* no object or holds something else than an object under "message"
UnexpectedShape(body) ==
    \/ body.t # "dict"
    \/ "message" \in DOMAIN body.v /\ body.v["message"].t # "dict"

FailureOutcome(o) == o.kind \in Failures \/ UnexpectedShape(o.body)

\* the generated text field of a body that is an object, if it has one
HasTextField(body) ==
    /\ "message" \in DOMAIN body.v
    /\ body.v["message"].t = "dict"
    /\ "content" \in DOMAIN body.v["message"].v

\* a history of one user message and one assistant message
TwoMessageHistory(h) ==
    /\ Len(h) = 2
    /\ {h[1].role, h[2].role} = {<<"user">>, <<"assistant">>}

\* C5 as claimed: chat never raises, returns a string, and returns the one
\* fallback string on every failure outcome.
C5_OneFallbackString ==
    call.op = "chat"
    => /\ call.out.raised = "none"
       /\ call.out.val.t = "str"
       /\ FailureOutcome(call.outcome)
            => call.out.val = PyStr(FallbackConnect)

\* C5 amended: chat never raises, and on every failure outcome it returns
\* one of its two fallback strings: the connection one when requests.post or
\* raise_for_status raised, the general one when the body has an unexpected
\* shape, either of them when the body is no JSON.
C5_FallbackStrings ==
    call.op = "chat"
    => /\ call.out.raised = "none"
       /\ FailureOutcome(call.outcome)
            => call.out.val \in {PyStr(FallbackConnect), PyStr(FallbackUnexpected)}
       /\ call.outcome.kind \in {"ConnectionError", "Timeout", "HTTPError"}
            => call.out.val = PyStr(FallbackConnect)
       /\ (call.outcome.kind = "ok" /\ UnexpectedShape(call.outcome.body))
            => call.out.val = PyStr(FallbackUnexpected)

\* C5 witness: chat has returned its general fallback string for a body of
\* an unexpected shape.
C5_Witness ==
    /\ call.op = "chat"
    /\ call.outcome.kind = "ok"
    /\ UnexpectedShape(call.outcome.body)
    /\ call.out.val = PyStr(FallbackUnexpected)

\* C6 as claimed: for a two-message history and every outcome of the
\* gateway, generate_specification returns a non-empty text that contains
\* the header FUNCTIONAL REQUIREMENTS.
C6_DocumentHasHeader ==
    (call.op = "generate_specification" /\ TwoMessageHistory(call.history))
    => /\ call.out.val.t = "str"
       /\ call.out.val.v # <<>>
       /\ Contains(call.out.val.v, HDR)

\* C6 amended: for a two-message history and every outcome of the gateway,
\* the prompt generate_specification sends is non-empty and contains the
\* header; what it returns is what the gateway returned: the model's text
\* as it is, or a fallback string, which has no header.
C6_PromptHasHeader ==
    (call.op = "generate_specification" /\ TwoMessageHistory(call.history))
    => /\ Len(call.sent) = 2
       /\ call.sent[2].role = <<"user">>
       /\ call.sent[2].content.v # <<>>
       /\ Contains(call.sent[2].content.v, HDR)
       /\ call.out.raised = "none"
       /\ (call.outcome.kind = "ok" /\ ~UnexpectedShape(call.outcome.body)
           /\ HasTextField(call.outcome.body))
            => call.out.val = call.outcome.body.v["message"].v["content"]
       /\ FailureOutcome(call.outcome)
            => /\ call.out.val \in
                    {PyStr(FallbackConnect), PyStr(FallbackUnexpected)}
               /\ ~Contains(call.out.val.v, HDR)

\* C6 witness: generate_specification has returned the connection fallback
\* string for a two-message history.
C6_Witness ==
    /\ call.op = "generate_specification"
    /\ TwoMessageHistory(call.history)
    /\ call.outcome.kind = "ConnectionError"
    /\ call.out.val = PyStr(FallbackConnect)

\* C7: process_message sends the system message with the elicitation prompt,
\* then role and content of every history element but the last, in order,
\* then a user message with the user text; in a chat request served alone
\* the messages after the system message are role and content of the stored
\* log at the time of the call.
C7_MessagesSent ==
    /\ call.op = "process_message"
        => LET h == call.history
               n == IF Len(h) = 0 THEN 0 ELSE Len(h) - 1
           IN /\ Len(call.sent) = n + 2
              /\ call.sent[1] = ChatMessage(<<"system">>, PyStr(SYSTEM_PROMPT))
              /\ \A i \in 1..n :
                    /\ call.sent[i + 1].role = h[i].role
                    /\ call.sent[i + 1].content = h[i].content
              /\ call.sent[n + 2] = ChatMessage(<<"user">>, PyStr(call.user_text))
    /\ \A r \in 1..MaxRequests :
        pc[r] = "await"
        => LET log == sessions[req[r].session_id].messages
               sent == req[r].sent
           IN /\ Len(sent) = Len(log) + 1
              /\ sent[1] = ChatMessage(<<"system">>, PyStr(SYSTEM_PROMPT))
              /\ \A i \in 1..Len(log) :
                    /\ sent[i + 1].role = log[i].role
                    /\ sent[i + 1].content = log[i].content
              /\ Last(sent).content = PyStr(req[r].message)

\* C7 witness: the second request of a conversation has sent its messages.
C7_Witness ==
    \E r \in 1..MaxRequests :
        /\ pc[r] = "await"
        /\ Len(sessions[req[r].session_id].messages) = 3
        /\ Len(req[r].sent) = 4

\* C9: with a success status and a JSON object as body, chat returns
\* message.content, and the empty string when that field is absent: no
\* message entry, a message entry without content, or a message entry that
\* holds no object.
C9_AbsentTextIsEmpty ==
    (call.op = "chat" /\ call.outcome.kind = "ok" /\ call.outcome.body.t = "dict")
    => /\ call.out.raised = "none"
       /\ call.out.val =
            IF HasTextField(call.outcome.body)
            THEN call.outcome.body.v["message"].v["content"]
            ELSE PyStr(<<>>)

\* The same for the bodies whose message entry, when there is one, holds an
\* object.
AbsentTextOfObjectIsEmpty ==
    (call.op = "chat" /\ call.outcome.kind = "ok"
     /\ ~UnexpectedShape(call.outcome.body))
    => /\ call.out.raised = "none"
       /\ call.out.val =
            IF HasTextField(call.outcome.body)
            THEN call.outcome.body.v["message"].v["content"]
            ELSE PyStr(<<>>)

\* role and content of the stored log of the session request r works on, up
\* to and including its k-th message
LogUpTo(r, k) == TextOnly(SubSeq(sessions[req[r].session_id].messages, 1, k))

\* the k-th message of that log is the user message of request r
OwnMessageAt(r, k) ==
    LET log == sessions[req[r].session_id].messages IN
    /\ log[k].role = <<"user">>
    /\ log[k].content = PyStr(req[r].message)

\* C11 as claimed: under any interleaving of chat requests on a session, what
\* a request sends after the system message is the stored log up to and
\* including its own user message: that message once, at the end, and every
\* turn before it once.
C11_SentIsLogUpToOwn ==
    \A r \in 1..MaxRequests :
        pc[r] = "await"
        => /\ req[r].sent[1] = ChatMessage(<<"system">>, PyStr(SYSTEM_PROMPT))
           /\ \E k \in 1..Len(sessions[req[r].session_id].messages) :
                /\ OwnMessageAt(r, k)
                /\ Tail(req[r].sent) = LogUpTo(r, k)

\* What holds under any interleaving: the messages sent after the system
\* message are the stored log without the element that was last when the
\* request read it, whichever request appended that element, followed by
\* the request's own user message.
SentIsLogButLastThenOwn ==
    \A r \in 1..MaxRequests :
        pc[r] = "await"
        => LET n == Len(req[r].sent) IN
           /\ n >= 2
           /\ SubSeq(req[r].sent, 2, n - 1) = LogUpTo(r, n - 2)
           /\ req[r].sent[n] = ChatMessage(<<"user">>, PyStr(req[r].message))

\* two requests of one session have both stored their user message before
\* either read the log
TwoRequestsInterleaved ==
    \E r, q \in 1..MaxRequests :
        /\ r # q
        /\ req[r].session_id = req[q].session_id
        /\ pc[r] = "await"
        /\ pc[q] \in {"get_history", "send", "await"}
        /\ req[r].message # req[q].message
        /\ Len(req[r].sent) = 3

\* two threads have completed add_message on the same session
BothDone(t, u) ==
    /\ t # u
    /\ thr[t].pc = "done"
    /\ thr[u].pc = "done"
    /\ thr[t].sid = thr[u].sid

\* the log holds what was there before the first of the two calls, then the
\* two messages, each once, in one of the two orders
BothInLog(t, u) ==
    LET log == sessions[thr[t].sid].messages
        b == IF Len(thr[t].before) <= Len(thr[u].before)
             THEN thr[t].before ELSE thr[u].before
    IN \/ log = b \o thr[t].message \o thr[u].message
       \/ log = b \o thr[u].message \o thr[t].message

\* no load_conversation has put another record under the identifier since
\* the call of thread t began
NoLoadSince(t) == thr[t].gen0 = gen[thr[t].sid]

\* C12 as claimed: two add_message calls on a known session that run at the
\* same time, also beside save_conversation, load_conversation and
\* get_conversation on it, are both in the log once they have completed,
\* each once, after the messages that were there before.
C12_BothPreserved ==
    \A t, u \in Threads : BothDone(t, u) => BothInLog(t, u)

\* C12 amended: the same when no load_conversation has replaced the record
\* of the session since the two calls began.
C12_BothPreservedWithoutLoad ==
    \A t, u \in Threads :
        (BothDone(t, u) /\ NoLoadSince(t) /\ NoLoadSince(u)) => BothInLog(t, u)

\* C12 witness: two calls that both looked up the list before either
\* appended, on a session that had a message and a snapshot, have completed
\* with no load in between, and both messages are in the log.
C12_Witness ==
    \E t, u \in Threads :
        /\ BothDone(t, u)
        /\ NoLoadSince(t)
        /\ NoLoadSince(u)
        /\ Len(thr[t].before) > 0
        /\ thr[t].seen = thr[t].before
        /\ thr[u].seen = thr[t].before
        /\ thr[t].sid \in DOMAIN files
        /\ BothInLog(t, u)

\* the roles of a log alternate user, assistant, starting with user
Alternates(log) ==
    \A i \in 1..Len(log) :
        log[i].role = IF i % 2 = 1 THEN <<"user">> ELSE <<"assistant">>

\* request r, which carried a non-empty message, takes its last step
Completes(r) ==
    /\ pc[r] # "done"
    /\ pc'[r] = "done"
    /\ req'[r].message # <<>>

\* what the claim says of the session as request r leaves it: the log ends
\* with the user message and the assistant message of the request, has even
\* length and alternating roles, and the snapshot file holds the record
TwoMoreAndSaved(r) ==
    LET sid == req'[r].session_id
        log == sessions'[sid].messages
        n == Len(log)
    IN /\ n >= 2
       /\ n % 2 = 0
       /\ Alternates(log)
       /\ log[n - 1].content = PyStr(req'[r].message)
       /\ log[n].content = req'[r].response
       /\ Loadable(files', sid)
       /\ DecodeRecord(files'[sid][1]) = sessions'[sid]

\* C13 as claimed: with chat requests served one at a time, every completed
\* request with a non-empty message has appended the user message and then
\* one assistant message, the log has even length and alternating roles,
\* and the snapshot written at the end equals the session record in memory.
C13_TwoPerRequestAndSaved ==
    [][\A r \in 1..MaxRequests : Completes(r) => TwoMoreAndSaved(r)]_vars

\* The same for the requests answered with status 200.
SuccessfulRequestTwoAndSaved ==
    [][\A r \in 1..MaxRequests :
        (Completes(r) /\ req'[r].status = 200) => TwoMoreAndSaved(r)]_vars

\* Whatever the status, a request with a non-empty message leaves two more
\* messages in the log, which alternates.
EveryRequestAppendsTwo ==
    [][\A r \in 1..MaxRequests :
        Completes(r)
        => LET log == sessions'[req'[r].session_id].messages IN
           /\ Len(log) % 2 = 0
           /\ Alternates(log)
           /\ log[Len(log) - 1].content = PyStr(req'[r].message)
           /\ log[Len(log)].content = req'[r].response]_vars

====
